---- MODULE Spec2Model ----
(***************************************************************************)
(* Model of the person-to-wikidata service (src/4-person-to-wikidata/      *)
(* app.py): the entity resolver resolve_person with its search fallback,   *)
(* batched enrichment, filtering cascade and scoring; the property readers *)
(* get_birthday, get_students, get_political_party and get_supervisors;    *)
(* and the endpoints that call them, /v1/all through asyncio.gather.       *)
(*                                                                         *)
(* Python values are represented as follows.                               *)
(*   str used for text processing : sequence of one-character strings      *)
(*   opaque str (QIDs)            : TLA+ string ("" is the empty id); the  *)
(*                                  ids the readers sort are text          *)
(*   dict                         : function whose DOMAIN is the set of    *)
(*                                  keys present                           *)
(*   Optional[x]                  : <<>> for None, <<x>> for a value        *)
(*   float score                  : integer number of half points (every   *)
(*                                  term of score() is a multiple of 0.5)  *)
(***************************************************************************)
EXTENDS Integers, Sequences, FiniteSets, TLC

\* ------------------------------------------------------------------ bounds

\* longest hit list one search response carries
MaxCands == 2
\* longest binding list one SPARQL response carries
MaxRows == 2
\* longest hit list of the long search answers
MaxHits == 14

\* ------------------------------------------------------- program constants

\* resolve_person keeps at most this many unique QIDs
TopK == 12
\* weights of score(), in points
HumanWeight == 1000
DobWeight == 300
DanishWeight == 80
LexWeight == 10
\* the float score is counted in units of 1/Half point: 0.5 * sitelinks
Half == 2

\* number of hits _search_candidates asks each search call for
SearchLimit == 20
\* number of characters of a failed SPARQL response that the error quotes
SnippetLen == 200

\* the fallback order with Danish tried first
Langs_daFirst == <<"da", "en", "auto">>

\* language fallback order of _search_candidates
Langs == <<"en", "da", "auto">>

\* ------------------------------------------------------------ Python str

\* str.lower() on the letters that occur in the model
UpperToLower == [A |-> "a", B |-> "b", H |-> "h", N |-> "n", R |-> "r"]

LowerCh(ch) == IF ch \in DOMAIN UpperToLower THEN UpperToLower[ch] ELSE ch

lower(s) == [i \in 1..Len(s) |-> LowerCh(s[i])]

IsSpace(ch) == ch = " "

RECURSIVE lstrip(_)
lstrip(s) == IF s # <<>> /\ IsSpace(Head(s)) THEN lstrip(Tail(s)) ELSE s

RECURSIVE rstrip(_)
rstrip(s) ==
    IF s # <<>> /\ IsSpace(s[Len(s)]) THEN rstrip(SubSeq(s, 1, Len(s) - 1)) ELSE s

\* str.strip()
strip(s) == rstrip(lstrip(s))

\* str.split() with no separator: the maximal runs of non-whitespace
RECURSIVE SplitFrom(_, _, _)
SplitFrom(s, cur, acc) ==
    IF s = <<>>
    THEN IF cur = <<>> THEN acc ELSE Append(acc, cur)
    ELSE IF IsSpace(Head(s))
         THEN SplitFrom(Tail(s), <<>>, IF cur = <<>> THEN acc ELSE Append(acc, cur))
         ELSE SplitFrom(Tail(s), Append(cur, Head(s)), acc)

split(s) == SplitFrom(s, <<>>, <<>>)

\* sub in s
contains(sub, s) ==
    \E i \in 0..(Len(s) - Len(sub)) : SubSeq(s, i + 1, i + Len(sub)) = sub

\* truth value of a str
Truthy(s) == s # <<>>

\* dict.get(key) as an Optional
Get(d, key) == IF key \in DOMAIN d THEN <<d[key]>> ELSE <<>>

\* dict.get(key, default)
GetOr(d, key, default) == IF key \in DOMAIN d THEN d[key] ELSE default

\* --------------------------------------------------------------- the data

\* names a client sends (PersonRequest.person)
Rasmussen == <<"R", "a", "s", "m", "u", "s", "s", "e", "n">>
NielsBohr == <<"N", "i", "e", "l", "s", " ", "B", "o", "h", "r">>
NBohr == <<"N", ".", " ", "B", "o", "h", "r">>
PaddedBohr == <<" ", "b", "o", "h", "r", " ">>
EmptyName == <<>>

Names == {Rasmussen, NielsBohr, NBohr, PaddedBohr, EmptyName}

\* PersonRequest.context: Optional[str]
Contexts == {<<>>, <<NielsBohr>>}

\* entity identifiers of the knowledge base
Ids == {"Q1", "Q2"}

\* one hit of wbsearchentities: a dict that normally carries id and label
Hit(id, label) == [id |-> id, label |-> label]
HitNoLabel(id) == [id |-> id]

SearchLabels == {<<>>, <<"B", "o", "h", "r">>}

Hits == {Hit(i, l) : i \in Ids, l \in SearchLabels} \cup {HitNoLabel(i) : i \in Ids}

\* identifiers of a long hit list
LongIds ==
    <<"Q1", "Q2", "Q3", "Q4", "Q5", "Q6", "Q7", "Q8", "Q9", "Q10", "Q11", "Q12",
      "Q13", "Q14", "Q15", "Q16">>

\* a hit without the id key
HitNoId == [label |-> NielsBohr]

\* n hits with n different ids
UniqueHits(n) == [i \in 1..n |-> Hit(LongIds[i], NielsBohr)]

\* the list hits with hit h put in at position p
InsertHit(hits, h, p) == SubSeq(hits, 1, p - 1) \o <<h>> \o SubSeq(hits, p, Len(hits))

\* hit lists of up to MaxHits hits: different ids in a row, and one more hit
\* anywhere in the list that repeats an id, has an empty id or has no id
LongHitLists ==
    {InsertHit(UniqueHits(n), h, p) :
        <<n, h, p>> \in
            {t \in (0..(MaxHits - 1)) \X
                    ({Hit(LongIds[d], <<>>) : d \in 1..(MaxHits - 1)}
                        \cup {Hit("", NielsBohr), HitNoId})
                    \X (1..MaxHits) :
                /\ t[3] <= t[1] + 1
                /\ "id" \in DOMAIN t[2] /\ t[2].id # ""
                       => \E d \in 1..t[1] : t[2].id = LongIds[d]}}

\* all sequences over S of length at most n
SeqUpTo(S, n) == UNION {[1..k -> S] : k \in 0..n}

\* what one HTTP call can end in: a time-out of the client, or a response
TimedOut == [timeout |-> TRUE, status_code |-> 0, body |-> <<>>]
Response(status, body) == [timeout |-> FALSE, status_code |-> status, body |-> body]

\* the body of a search response is resp.json(): a dict with an optional
\* "search" list
SearchResponses ==
    {Response(200, [search |-> h]) : h \in SeqUpTo(Hits, MaxCands)}
        \cup {Response(500, <<>>), TimedOut}

\* the date-of-birth literal of the query service
DobLiteral ==
    <<"1", "8", "8", "5", "-", "1", "0", "-", "0", "7", "T",
      "0", "0", ":", "0", "0", ":", "0", "0", "Z">>

Five == <<"5">>
Fifty == <<"5", "0">>
Many == <<"5", "0", "0", "0">>
Junk == <<"x">>

\* an entity of the knowledge base: what the enrichment query projects
Entities ==
    [label : {<<>>, <<NielsBohr>>}, human : BOOLEAN, dob : BOOLEAN,
     danish : BOOLEAN, sitelinks : {<<Five>>, <<Fifty>>, <<Many>>}]

\* entities with the optional bindings present, absent or unparsable
Bohr ==
    [label |-> <<NielsBohr>>, human |-> TRUE, dob |-> TRUE, danish |-> TRUE,
     sitelinks |-> <<Fifty>>]
Unlabelled ==
    [label |-> <<>>, human |-> FALSE, dob |-> FALSE, danish |-> FALSE,
     sitelinks |-> <<>>]
EmptyLabelled ==
    [label |-> <<EmptyName>>, human |-> TRUE, dob |-> FALSE, danish |-> FALSE,
     sitelinks |-> <<Junk>>]

\* two small knowledge bases
PlainKBs ==
    {[q \in Ids |-> IF q = "Q1" THEN Bohr ELSE Unlabelled],
     [q \in Ids |-> IF q = "Q1" THEN EmptyLabelled ELSE Bohr]}

EntityUri(q) == <<"http:", "", "www.wikidata.org", "entity", q>>

Bool(b) == IF b THEN "true" ELSE "false"

Opt(key, o) == IF o = <<>> THEN <<>> ELSE key :> o[1]

\* the binding row of the enrichment query for entity q: EXISTS projections
\* are always bound, the OPTIONAL ones only when the entity has the value
Binding(q, e) ==
    [item |-> EntityUri(q), isHuman |-> Bool(e.human), hasDob |-> Bool(e.dob),
     isDanish |-> Bool(e.danish)]
        @@ Opt("itemLabel", e.label)
        @@ Opt("sitelinks", e.sitelinks)
        @@ (IF e.dob THEN "dob" :> DobLiteral ELSE <<>>)

\* a row without ?item
ItemlessRow == [isHuman |-> "false", hasDob |-> "false", isDanish |-> "false"]

Bindings(k) == {Binding(q, k[q]) : q \in Ids}

\* the responses of the SPARQL endpoint over knowledge base k
SparqlResponses(k) ==
    {Response(200, rows) : rows \in SeqUpTo(Bindings(k) \cup {ItemlessRow}, MaxRows)}
        \cup {Response(500, <<>>), TimedOut}

\* ------------------------------------------------------------------ state

VARIABLES
    person,      \* resolve_person: the name being resolved
    context,     \* resolve_person: the optional context
    kb,          \* the knowledge base behind the two endpoints
    pc,          \* where resolve_person stands: search, dedup, enrich, done
    lang,        \* _search_candidates: index of the language being tried
    searchLog,   \* the search calls made so far, with their responses
    candidates,  \* resolve_person: candidates
    qids,        \* resolve_person: qids
    sparqlLog,   \* the SPARQL calls made so far, with their responses
    queries,     \* the enrichment queries issued so far
    enriched,    \* resolve_person: enriched
    pool,        \* resolve_person: pool after pool.sort
    outcome,     \* pending, ok, or the exception that ended the call
    detail,      \* the detail of that exception when it is an HTTPException
    returned,    \* the values resolve_person returned
    run,         \* 1 for the first request, 2 for the repeated one
    last,        \* Optional: what the first request ended in
    endpoint,    \* the endpoint serving the request, "none" for a bare resolve_person
    relations,   \* the advisor and student-of statements of the resolved entity
    ready,       \* the event loop's queue of reader tasks not yet started
    tasks,       \* per reader: idle, inflight, returned or raised, with its result
    finished,    \* the readers in the order they finished
    reply        \* the endpoint's outcome: pending, ok with a body, or an exception

\* the state of resolve_person
resolveVars ==
    <<person, context, kb, pc, lang, searchLog, candidates, qids, sparqlLog, queries,
      enriched, pool, outcome, detail, returned, run, last>>

\* the state of the endpoint around it
readerVars == <<endpoint, relations, ready, tasks, finished, reply>>

vars ==
    <<person, context, kb, pc, lang, searchLog, candidates, qids, sparqlLog, queries,
      enriched, pool, outcome, detail, returned, run, last,
      endpoint, relations, ready, tasks, finished, reply>>

\* ----------------------------------------------------------- HTTP helpers

NoExc == "none"
NotFound == "HTTP 404"
BadGateway == "HTTP 502"
Timeout == "httpx.TimeoutException"
KeyError == "KeyError"

\* how a call ends: with a value, or with an exception and its detail
Returns(v) == [raised |-> NoExc, detail |-> <<>>, value |-> v]
Raises(e) == [raised |-> e, detail |-> <<>>, value |-> <<>>]
RaisesHttp(e, d) == [raised |-> e, detail |-> d, value |-> <<>>]

\* f"Wikidata search failed: {resp.status_code}"
SearchDetail(r) == <<"Wikidata search failed: ", r.status_code>>

\* f"Wikidata SPARQL failed: {resp.status_code} {snippet}", the snippet being
\* the first SnippetLen characters of the response text
SparqlDetail(r) ==
    <<"Wikidata SPARQL failed: ", r.status_code, " ",
      SubSeq(r.body, 1, IF Len(r.body) < SnippetLen THEN Len(r.body) ELSE SnippetLen)>>

\* _wikidata_search that takes a failed search for an empty one
wikidata_search_swallow(r) ==
    IF r.timeout THEN Raises(Timeout)
    ELSE IF r.status_code # 200 THEN Returns(<<>>)
    ELSE Returns(GetOr(r.body, "search", <<>>))

\* _wikidata_search that reports a failed search as a missing entity
wikidata_search_notfound(r) ==
    IF r.timeout THEN Raises(Timeout)
    ELSE IF r.status_code # 200 THEN RaisesHttp(NotFound, SearchDetail(r))
    ELSE Returns(GetOr(r.body, "search", <<>>))

\* _wikidata_search: resp.json().get("search") or []
wikidata_search(r) ==
    IF r.timeout THEN Raises(Timeout)
    ELSE IF r.status_code # 200 THEN RaisesHttp(BadGateway, SearchDetail(r))
    ELSE Returns(GetOr(r.body, "search", <<>>))

\* _sparql_select that takes a failed query for one without rows
sparql_select_swallow(r) ==
    IF r.timeout THEN Raises(Timeout)
    ELSE IF r.status_code # 200 THEN Returns(<<>>)
    ELSE Returns(r.body)

\* _sparql_select that reports a time-out of the client as a failed query
sparql_select_timeout502(r) ==
    IF r.timeout THEN RaisesHttp(BadGateway, <<"Wikidata SPARQL failed: ">>)
    ELSE IF r.status_code # 200 THEN RaisesHttp(BadGateway, SparqlDetail(r))
    ELSE Returns(r.body)

\* _sparql_select: the binding rows
sparql_select(r) ==
    IF r.timeout THEN Raises(Timeout)
    ELSE IF r.status_code # 200 THEN RaisesHttp(BadGateway, SparqlDetail(r))
    ELSE Returns(r.body)

\* _qid_from_uri: the text after the last "/"
qid_from_uri(uri) == uri[Len(uri)]

\* the index of the first "T" of value, 0 if there is none
RECURSIVE IndexOfT(_, _)
IndexOfT(value, i) ==
    IF i > Len(value) THEN 0
    ELSE IF value[i] = "T" THEN i ELSE IndexOfT(value, i + 1)

\* _normalize_date: Optional[str]
normalize_date(value) ==
    IF ~Truthy(value) THEN <<>>
    ELSE IF IndexOfT(value, 1) # 0
         THEN <<SubSeq(value, 1, IndexOfT(value, 1) - 1)>>
    ELSE IF Len(value) >= 10 /\ value[5] = "-" /\ value[8] = "-"
         THEN <<SubSeq(value, 1, 10)>>
    ELSE <<>>

Digits == <<"0", "1", "2", "3", "4", "5", "6", "7", "8", "9">>

IsDigit(ch) == \E i \in 1..Len(Digits) : Digits[i] = ch

DigitValue(ch) == (CHOOSE i \in 1..Len(Digits) : Digits[i] = ch) - 1

RECURSIVE DecimalValue(_)
DecimalValue(s) ==
    IF s = <<>> THEN 0
    ELSE DecimalValue(SubSeq(s, 1, Len(s) - 1)) * 10 + DigitValue(s[Len(s)])

\* int(sitelinks_raw), 0 on ValueError
ParseSitelinks(raw) ==
    IF raw # <<>> /\ \A i \in 1..Len(raw) : IsDigit(raw[i])
    THEN DecimalValue(raw) ELSE 0

\* b(key) of _enrich_candidates
b(r, key) == IF Get(r, key) = <<"true">> THEN 1 ELSE 0

\* the dict _enrich_candidates appends for row r
EnrichRow(r) ==
    [qid |-> qid_from_uri(r.item),
     label |-> GetOr(r, "itemLabel", <<>>),
     is_human |-> b(r, "isHuman"),
     has_dob |-> b(r, "hasDob"),
     is_danish |-> b(r, "isDanish"),
     sitelinks |-> ParseSitelinks(GetOr(r, "sitelinks", <<"0">>)),
     dob |-> IF Get(r, "dob") # <<>> /\ Truthy(r.dob) THEN normalize_date(r.dob) ELSE <<>>]

HasItem(r) == "item" \in DOMAIN r /\ r.item # <<>>

\* the loop of _enrich_candidates over the rows of the response
RECURSIVE EnrichRows(_)
EnrichRows(rows) ==
    IF rows = <<>> THEN <<>>
    ELSE IF HasItem(Head(rows))
         THEN <<EnrichRow(Head(rows))>> \o EnrichRows(Tail(rows))
         ELSE EnrichRows(Tail(rows))

\* ------------------------------------------------------- resolve_person

\* the loop over candidates without its test for ids already seen
RECURSIVE CollectQids_repeats(_, _)
CollectQids_repeats(cands, acc) ==
    IF cands = <<>> THEN acc
    ELSE LET c == Head(cands)
             q == Get(c, "id")
             acc2 == IF q # <<>> /\ q[1] # "" THEN Append(acc, q[1]) ELSE acc
         IN IF Len(acc2) >= TopK THEN acc2 ELSE CollectQids_repeats(Tail(cands), acc2)

\* the loop over candidates that collects the first unique truthy ids and
\* breaks once TopK of them are collected
RECURSIVE CollectQids(_, _)
CollectQids(cands, acc) ==
    IF cands = <<>> THEN acc
    ELSE LET c == Head(cands)
             q == Get(c, "id")
             acc2 == IF q # <<>> /\ q[1] # "" /\ \A i \in 1..Len(acc) : acc[i] # q[1]
                     THEN Append(acc, q[1]) ELSE acc
         IN IF Len(acc2) >= TopK THEN acc2 ELSE CollectQids(Tail(cands), acc2)

TopQids(cands) == CollectQids(cands, <<>>)

\* token = person.lower(), without the strip
Token_raw(p) == lower(p)

\* token = person.strip().lower()
Token(p) == lower(strip(p))

\* is_short that takes every name for a short one
IsShort_always(token) == Len(split(token)) >= 0

\* is_short = (len(token.split()) == 1) or ("." in token)
IsShort(token) == Len(split(token)) = 1 \/ contains(<<".">>, token)

IsHuman(c) == c.is_human = 1
HasDob(c) == c.has_dob = 1

\* the pool without the preference for humans
HumanPool_all(en) == en

\* pool = [c for c in enriched if c["is_human"] == 1] or enriched
HumanPool(en) ==
    IF SelectSeq(en, IsHuman) # <<>> THEN SelectSeq(en, IsHuman) ELSE en

\* the pool left as it is, without the birthdate preference
DobPool_skip(pl) == pl

\* pool2 = [c for c in pool if c["has_dob"] == 1]; if pool2: pool = pool2
DobPool(pl) ==
    IF SelectSeq(pl, HasDob) # <<>> THEN SelectSeq(pl, HasDob) ELSE pl

\* score(c) with the weight of the lexical bonus given to the Danish bias
score_weights(c, token, is_short) ==
    Half * HumanWeight * c.is_human
        + Half * DobWeight * c.has_dob
        + (IF is_short THEN Half * LexWeight * c.is_danish ELSE 0)
        + (IF Truthy(token) /\ contains(token, lower(c.label)) THEN Half * LexWeight ELSE 0)
        + c.sitelinks

\* score(c) with a bonus for a label found in the context of the request
score_context(c, token, is_short) ==
    Half * HumanWeight * c.is_human
        + Half * DobWeight * c.has_dob
        + (IF is_short THEN Half * DanishWeight * c.is_danish ELSE 0)
        + (IF Truthy(token) /\ contains(token, lower(c.label)) THEN Half * LexWeight ELSE 0)
        + (IF context # <<>> /\ Truthy(c.label) /\ contains(lower(c.label), lower(context[1]))
           THEN Half * LexWeight ELSE 0)
        + c.sitelinks

\* score(c), in half points
score(c, token, is_short) ==
    Half * HumanWeight * c.is_human
        + Half * DobWeight * c.has_dob
        + (IF is_short THEN Half * DanishWeight * c.is_danish ELSE 0)
        + (IF Truthy(token) /\ contains(token, lower(c.label)) THEN Half * LexWeight ELSE 0)
        + c.sitelinks

\* a sort that puts x before the elements of equal score
RECURSIVE InsertByScore_unstable(_, _, _, _)
InsertByScore_unstable(x, pl, token, is_short) ==
    IF pl = <<>> THEN <<x>>
    ELSE IF score(Head(pl), token, is_short) > score(x, token, is_short)
         THEN <<Head(pl)>> \o InsertByScore_unstable(x, Tail(pl), token, is_short)
         ELSE <<x>> \o pl

\* a sort whose order of equal scores depends on how many requests were served
RECURSIVE InsertByScore_served(_, _, _, _)
InsertByScore_served(x, pl, token, is_short) ==
    IF pl = <<>> THEN <<x>>
    ELSE IF \/ score(Head(pl), token, is_short) > score(x, token, is_short)
            \/ run = 1 /\ score(Head(pl), token, is_short) = score(x, token, is_short)
         THEN <<Head(pl)>> \o InsertByScore_served(x, Tail(pl), token, is_short)
         ELSE <<x>> \o pl

\* where x goes into the list pl, sorted by descending score, so that it
\* follows every element whose score is not smaller
RECURSIVE InsertByScore(_, _, _, _)
InsertByScore(x, pl, token, is_short) ==
    IF pl = <<>> THEN <<x>>
    ELSE IF score(Head(pl), token, is_short) >= score(x, token, is_short)
         THEN <<Head(pl)>> \o InsertByScore(x, Tail(pl), token, is_short)
         ELSE <<x>> \o pl

\* pool.sort(key=score) followed by pool.reverse(): candidates of equal score
\* end up in the reverse of their order in the pool
RECURSIVE SortByScore_reversed(_, _, _)
SortByScore_reversed(pl, token, is_short) ==
    IF pl = <<>> THEN <<>>
    ELSE InsertByScore(Head(pl), SortByScore_reversed(Tail(pl), token, is_short),
                       token, is_short)

\* pool.sort(key=score, reverse=True): a stable sort by descending score
RECURSIVE SortByScore(_, _, _)
SortByScore(pl, token, is_short) ==
    IF pl = <<>> THEN <<>>
    ELSE InsertByScore(pl[Len(pl)],
                       SortByScore(SubSeq(pl, 1, Len(pl) - 1), token, is_short),
                       token, is_short)

\* the sorted pool of the scored path
ScoredPool(p, en) ==
    SortByScore(DobPool(HumanPool(en)), Token(p), IsShort(Token(p)))

\* x.get("label") or token: the fallback to the stripped, lowercased name
LabelOr_token(d, p) ==
    IF Get(d, "label") # <<>> /\ Truthy(d.label) THEN d.label ELSE Token(p)

\* x.get("label") or person
LabelOr(d, p) ==
    IF Get(d, "label") # <<>> /\ Truthy(d.label) THEN d.label ELSE p

\* the fallback taking the last raw candidate instead of the first
Conclude_last(en) ==
    IF en = <<>>
    THEN /\ pool' = <<>>
         /\ outcome' = "ok"
         /\ returned' =
                <<[qid |-> candidates[Len(candidates)].id,
                   label |-> LabelOr(candidates[Len(candidates)], person)]>>
    ELSE /\ pool' = ScoredPool(person, en)
         /\ outcome' = "ok"
         /\ returned' = <<[qid |-> pool'[1].qid, label |-> LabelOr(pool'[1], person)]>>

\* what resolve_person does once _enrich_candidates has returned en
Conclude(en) ==
    IF en = <<>>
    THEN /\ pool' = <<>>
         /\ IF "id" \in DOMAIN candidates[1]
            THEN /\ outcome' = "ok"
                 /\ returned' =
                        <<[qid |-> candidates[1].id, label |-> LabelOr(candidates[1], person)]>>
            ELSE /\ outcome' = KeyError
                 /\ returned' = <<>>
    ELSE /\ pool' = ScoredPool(person, en)
         /\ outcome' = "ok"
         /\ returned' = <<[qid |-> pool'[1].qid, label |-> LabelOr(pool'[1], person)]>>

\* resolve_person without its 404: an empty search ends the call quietly
SearchReturn_quiet(r) ==
    /\ pc = "search"
    /\ searchLog' =
           Append(searchLog, [lang |-> Langs[lang], limit |-> SearchLimit, resp |-> r])
    /\ LET res == wikidata_search(r)
       IN IF res.raised # NoExc
          THEN /\ outcome' = res.raised
               /\ pc' = "done"
               /\ UNCHANGED <<lang, candidates>>
          ELSE IF res.value # <<>>
          THEN /\ candidates' = res.value
               /\ pc' = "dedup"
               /\ UNCHANGED <<lang, outcome>>
          ELSE IF lang < Len(Langs)
          THEN /\ lang' = lang + 1
               /\ UNCHANGED <<pc, candidates, outcome>>
          ELSE /\ outcome' = "ok"
               /\ pc' = "done"
               /\ UNCHANGED <<lang, candidates>>
    /\ detail' = wikidata_search(r).detail
    /\ UNCHANGED <<person, context, kb, qids, sparqlLog, queries, enriched, pool,
                   returned, run, last>>

\* one await of _wikidata_search inside _search_candidates returns
SearchReturn(r) ==
    /\ pc = "search"
    /\ searchLog' =
           Append(searchLog, [lang |-> Langs[lang], limit |-> SearchLimit, resp |-> r])
    /\ LET res == wikidata_search(r)
       IN IF res.raised # NoExc
          THEN /\ outcome' = res.raised
               /\ pc' = "done"
               /\ UNCHANGED <<lang, candidates>>
          ELSE IF res.value # <<>>
          THEN /\ candidates' = res.value
               /\ pc' = "dedup"
               /\ UNCHANGED <<lang, outcome>>
          ELSE IF lang < Len(Langs)
          THEN /\ lang' = lang + 1
               /\ UNCHANGED <<pc, candidates, outcome>>
          ELSE /\ outcome' = NotFound
               /\ pc' = "done"
               /\ UNCHANGED <<lang, candidates>>
    /\ detail' = wikidata_search(r).detail
    /\ UNCHANGED <<person, context, kb, qids, sparqlLog, queries, enriched, pool,
                   returned, run, last>>

\* _enrich_candidates asking about every id in a query of its own
EnrichQueries_perId(ids) == [i \in 1..Len(ids) |-> [values |-> <<ids[i]>>]]

\* the queries _enrich_candidates issues for ids: none for an empty list,
\* else one whose VALUES clause lists every id
EnrichQueries(ids) == IF ids = <<>> THEN <<>> ELSE <<[values |-> ids]>>

\* from the return of _search_candidates to the await of _sparql_select;
\* _enrich_candidates returns [] at once for an empty id list
Dedup ==
    /\ pc = "dedup"
    /\ qids' = TopQids(candidates)
    /\ IF qids' = <<>>
       THEN /\ Conclude(<<>>)
            /\ pc' = "done"
       ELSE /\ pc' = "enrich"
            /\ UNCHANGED <<pool, outcome, returned>>
    /\ queries' = queries \o EnrichQueries(qids')
    /\ UNCHANGED <<person, context, kb, lang, searchLog, candidates, sparqlLog,
                   enriched, detail, run, last>>

\* the await of _sparql_select inside _enrich_candidates returns, and
\* resolve_person runs to its end
EnrichReturn(r) ==
    /\ pc = "enrich"
    /\ sparqlLog' = Append(sparqlLog, r)
    /\ pc' = "done"
    /\ LET res == sparql_select(r)
       IN IF res.raised # NoExc
          THEN /\ outcome' = res.raised
               /\ UNCHANGED <<enriched, pool, returned>>
          ELSE /\ enriched' = EnrichRows(res.value)
               /\ Conclude(enriched')
    /\ detail' = sparql_select(r).detail
    /\ UNCHANGED <<person, context, kb, lang, searchLog, candidates, qids, queries,
                   run, last>>

\* the scores of the sorted pool, as score() computed them
Scores ==
    [i \in 1..Len(pool) |-> score(pool[i], Token(person), IsShort(Token(person)))]

\* the client sends the same person again, with another context c
Retry(c) ==
    /\ pc = "done"
    /\ run = 1
    /\ c # context
    /\ run' = 2
    /\ context' = c
    /\ last' = <<[context |-> context, sparqlLog |-> sparqlLog, enriched |-> enriched,
                  pool |-> pool, scores |-> Scores, outcome |-> outcome,
                  returned |-> returned]>>
    /\ pc' = "search"
    /\ lang' = 1
    /\ searchLog' = <<>>
    /\ candidates' = <<>>
    /\ qids' = <<>>
    /\ sparqlLog' = <<>>
    /\ enriched' = <<>>
    /\ pool' = <<>>
    /\ outcome' = "pending"
    /\ returned' = <<>>
    /\ queries' = <<>>
    /\ detail' = <<>>
    /\ UNCHANGED <<person, kb>>

\* ------------------------------------------------------- property readers

\* the characters of the texts of this model, in the order of their code points
Alphabet ==
    <<" ", "-", ".", "0", "1", "2", "3", "4", "5", "6", "7", "8", "9", ":",
      "A", "B", "C", "D", "E", "F", "G", "H", "I", "J", "K", "L", "M", "N", "O",
      "P", "Q", "R", "S", "T", "U", "V", "W", "X", "Y", "Z",
      "a", "b", "c", "d", "e", "f", "g", "h", "i", "j", "k", "l", "m", "n", "o",
      "p", "q", "r", "s", "t", "u", "v", "w", "x", "y", "z">>

\* ord(ch), up to a monotone renumbering
Ord(ch) == CHOOSE i \in 1..Len(Alphabet) : Alphabet[i] = ch

\* str < str: s is a proper prefix of t, or has the smaller character at the
\* first place where they differ
RECURSIVE StrLess(_, _)
StrLess(s, t) ==
    IF t = <<>> THEN FALSE
    ELSE IF s = <<>> THEN TRUE
    ELSE IF Head(s) = Head(t) THEN StrLess(Tail(s), Tail(t))
    ELSE Ord(Head(s)) < Ord(Head(t))

\* tuple < tuple over tuples of str
RECURSIVE TupleLess(_, _)
TupleLess(a, c) ==
    IF c = <<>> THEN FALSE
    ELSE IF a = <<>> THEN TRUE
    ELSE IF Head(a) = Head(c) THEN TupleLess(Tail(a), Tail(c))
    ELSE StrLess(Head(a), Head(c))

\* list.sort(key=...) over entries [key, item]: a stable sort, ascending by key
RECURSIVE InsertEntry(_, _)
InsertEntry(e, sorted) ==
    IF sorted = <<>> THEN <<e>>
    ELSE IF TupleLess(e.key, Head(sorted).key) THEN <<e>> \o sorted
    ELSE <<Head(sorted)>> \o InsertEntry(e, Tail(sorted))

RECURSIVE SortFrom(_, _)
SortFrom(es, sorted) ==
    IF es = <<>> THEN sorted ELSE SortFrom(Tail(es), InsertEntry(Head(es), sorted))

ListSort(es) == SortFrom(es, <<>>)

\* the loop of get_birthday over the rows: the truthy normalized dates
RECURSIVE BirthDates(_)
BirthDates(rows) ==
    IF rows = <<>> THEN <<>>
    ELSE LET v == Get(Head(rows), "dob")
             d == IF v # <<>> /\ Truthy(v[1]) THEN normalize_date(v[1]) ELSE <<>>
         IN (IF d # <<>> /\ Truthy(d[1]) THEN d ELSE <<>>) \o BirthDates(Tail(rows))

\* get_birthday without dates.sort()
get_birthday_unsorted(rows) ==
    LET dates == BirthDates(rows)
    IN IF dates = <<>> THEN <<>> ELSE <<dates[1]>>

\* get_birthday after its query: Optional[str]
get_birthday(rows) ==
    LET dates == BirthDates(rows)
        sorted == ListSort([i \in 1..Len(dates) |-> [key |-> <<dates[i]>>, item |-> dates[i]]])
    IN IF dates = <<>> THEN <<>> ELSE <<sorted[1].item>>

\* the loop of get_students over the rows, with out the list built so far
RECURSIVE CollectStudents(_, _)
CollectStudents(rows, out) ==
    IF rows = <<>> THEN out
    ELSE LET r == Head(rows)
             uri == Get(r, "student")
         IN IF uri = <<>> \/ ~Truthy(uri[1]) THEN CollectStudents(Tail(rows), out)
            ELSE IF \E i \in 1..Len(out) : out[i].qid = qid_from_uri(uri[1])
            THEN CollectStudents(Tail(rows), out)
            ELSE CollectStudents(Tail(rows),
                     Append(out, [label |-> GetOr(r, "studentLabel", <<>>),
                                  qid |-> qid_from_uri(uri[1])]))

\* the loop of get_students without its seen set
RECURSIVE CollectStudents_repeats(_)
CollectStudents_repeats(rows) ==
    IF rows = <<>> THEN <<>>
    ELSE LET r == Head(rows)
             uri == Get(r, "student")
         IN IF uri = <<>> \/ ~Truthy(uri[1]) THEN CollectStudents_repeats(Tail(rows))
            ELSE <<[label |-> GetOr(r, "studentLabel", <<>>), qid |-> qid_from_uri(uri[1])]>>
                     \o CollectStudents_repeats(Tail(rows))

\* get_students that keeps every row
get_students_repeats(rows) == CollectStudents_repeats(rows)

\* get_students after its query
get_students(rows) == CollectStudents(rows, <<>>)

\* the loop of get_political_party and get_supervisors over the rows
RECURSIVE CollectRecords(_, _, _)
CollectRecords(rows, key, labelKey) ==
    IF rows = <<>> THEN <<>>
    ELSE LET r == Head(rows)
             uri == Get(r, key)
         IN IF uri = <<>> \/ ~Truthy(uri[1]) THEN CollectRecords(Tail(rows), key, labelKey)
            ELSE <<[label |-> GetOr(r, labelKey, <<>>), qid |-> qid_from_uri(uri[1])]>>
                     \o CollectRecords(Tail(rows), key, labelKey)

\* out.sort(key=lambda x: (x["label"], x["qid"])) that compares the ids only
SortRecords_byId(out) ==
    LET sorted == ListSort([i \in 1..Len(out) |-> [key |-> <<out[i].qid>>, item |-> out[i]]])
    IN [i \in 1..Len(out) |-> sorted[i].item]

\* out.sort(key=lambda x: (x["label"], x["qid"]))
SortRecords(out) ==
    LET sorted ==
            ListSort([i \in 1..Len(out) |->
                         [key |-> <<out[i].label, out[i].qid>>, item |-> out[i]]])
    IN [i \in 1..Len(out) |-> sorted[i].item]

\* get_political_party after its query
get_political_party(rows) == SortRecords(CollectRecords(rows, "party", "partyLabel"))

\* get_supervisors after its query
get_supervisors(rows) ==
    SortRecords(CollectRecords(rows, "supervisor", "supervisorLabel"))

\* the four readers
Readers == {"get_birthday", "get_students", "get_political_party", "get_supervisors"}

\* reader rd once _sparql_select was answered with r: the exception of
\* _sparql_select, or the value the reader returns
Reader(rd, r) ==
    LET res == sparql_select(r)
    IN IF res.raised # NoExc THEN res
       ELSE Returns(CASE rd = "get_birthday" -> get_birthday(res.value)
                      [] rd = "get_students" -> get_students(res.value)
                      [] rd = "get_political_party" -> get_political_party(res.value)
                      [] rd = "get_supervisors" -> get_supervisors(res.value))

\* ---- what the readers' queries can answer

\* entity identifiers of related entities, as text
RelQ2 == <<"Q", "2">>
RelQ10 == <<"Q", "1", "0">>
RelIds == {RelQ2, RelQ10}

\* labels of related entities
LabelB == <<"B">>
LabelA == <<"a">>

\* date-of-birth values: two timestamps, a plain date, a timestamp of a
\* year before the common era, and the label of an unknown value
EarlierDob ==
    <<"1", "8", "7", "9", "-", "0", "3", "-", "1", "4", "T",
      "0", "0", ":", "0", "0", ":", "0", "0", "Z">>
PlainDate == <<"1", "8", "8", "6", "-", "0", "1", "-", "0", "1">>
AncientDob ==
    <<"-", "0", "4", "2", "7", "-", "0", "5", "-", "0", "7", "T",
      "0", "0", ":", "0", "0", ":", "0", "0", "Z">>
UnknownDob == <<"t", "1", "2">>

DobValues == {DobLiteral, EarlierDob, PlainDate, AncientDob, UnknownDob}

\* rows of SELECT ?dob
BirthRows == {[dob |-> v] : v \in DobValues}

\* a row of a relation query: the entity, and its label when it has one
RelationRow(key, labelKey, q, l) == (key :> EntityUri(q)) @@ Opt(labelKey, l)

\* rows of SELECT ?student ?studentLabel; the property path keeps
\* duplicate solutions
StudentRows ==
    {RelationRow("student", "studentLabel", q, l) : q \in RelIds, l \in {<<>>, <<LabelB>>}}
        \cup {[studentLabel |-> LabelB]}

\* rows of SELECT ?party ?partyLabel
PartyRows ==
    {RelationRow("party", "partyLabel", q, l) :
        q \in RelIds, l \in {<<>>, <<LabelB>>, <<LabelA>>}}
        \cup {[partyLabel |-> LabelB]}

\* the statements of the resolved entity that the supervisor query reads:
\* its doctoral advisors (P184), whom it was a student of (P1066), and the
\* one English label each related entity has or lacks
Relations ==
    [advisors : SUBSET RelIds, studentOf : SUBSET RelIds,
     labels : [RelIds -> {<<>>, <<LabelA>>}]]

NoRelations == [advisors |-> {}, studentOf |-> {}, labels |-> [q \in RelIds |-> <<>>]]

\* the sequences that list every element of the finite set S once
RECURSIVE Listings(_)
Listings(S) ==
    IF S = {} THEN {<<>>}
    ELSE UNION {{<<x>> \o l : l \in Listings(S \ {x})} : x \in S}

\* the solutions of { P184 } UNION { P1066 } over rel, one per statement
UnionRows(rel) ==
    {a \o c : a \in Listings(rel.advisors), c \in Listings(rel.studentOf)}

\* the solution rows of the two-branch UNION, kept with their repetitions
Distinct_all(ids) == ids

\* SELECT DISTINCT: every solution once
RECURSIVE Distinct(_)
Distinct(ids) ==
    IF ids = <<>> THEN <<>>
    ELSE LET rest == Distinct(SubSeq(ids, 1, Len(ids) - 1))
             x == ids[Len(ids)]
         IN IF \E i \in 1..Len(rest) : rest[i] = x THEN rest ELSE Append(rest, x)

\* the answers of SELECT DISTINCT ?supervisor ?supervisorLabel over rel
SupervisorAnswers(rel) ==
    {[i \in 1..Len(ids) |->
         RelationRow("supervisor", "supervisorLabel", ids[i], rel.labels[ids[i]])] :
        ids \in {Distinct(u) : u \in UnionRows(rel)}}

\* what the query of reader rd can be answered with
ReaderResponses(rd) ==
    {Response(500, <<>>), TimedOut} \cup
        {Response(200, rows) :
            rows \in CASE rd = "get_birthday" -> SeqUpTo(BirthRows, MaxRows)
                       [] rd = "get_students" -> SeqUpTo(StudentRows, MaxRows)
                       [] rd = "get_political_party" -> SeqUpTo(PartyRows, MaxRows)
                       [] rd = "get_supervisors" -> SupervisorAnswers(relations)}

\* ---- the endpoints

Endpoints == {"birthday", "students", "all_info", "political_party", "supervisor"}

\* the readers an endpoint calls, in the order of its code
ReadersOf(ep) ==
    CASE ep = "birthday" -> <<"get_birthday">>
      [] ep = "students" -> <<"get_students">>
      [] ep = "all_info" -> <<"get_birthday", "get_students">>
      [] ep = "political_party" -> <<"get_political_party">>
      [] ep = "supervisor" -> <<"get_supervisors">>
      [] OTHER -> <<>>

\* the key of the response body that carries the value of reader rd
Field(rd) ==
    CASE rd = "get_birthday" -> "birthday"
      [] rd = "get_students" -> "students"
      [] rd = "get_political_party" -> "political_party"
      [] rd = "get_supervisors" -> "supervisors"

IdleTask == [st |-> "idle", resp |-> <<>>, raised |-> NoExc, value |-> <<>>]

Pending == [outcome |-> "pending", detail |-> <<>>, body |-> <<>>]

\* the dict an endpoint returns once its readers returned
Body(ts) ==
    [person |-> returned[1].label, qid |-> returned[1].qid]
        @@ [f \in {Field(ReadersOf(endpoint)[i]) : i \in 1..Len(ReadersOf(endpoint))} |->
               ts[CHOOSE rd \in Readers : Field(rd) = f].value]

\* all_info with two awaits in a row in place of asyncio.gather
AfterResolve_sequential ==
    IF pc' # "done" THEN UNCHANGED readerVars
    ELSE IF outcome' # "ok"
    THEN /\ reply' = [outcome |-> outcome', detail |-> detail', body |-> <<>>]
         /\ UNCHANGED <<endpoint, relations, ready, tasks, finished>>
    ELSE /\ tasks' = [tasks EXCEPT ![ReadersOf(endpoint)[1]].st = "inflight"]
         /\ UNCHANGED <<endpoint, relations, ready, finished, reply>>

\* the endpoint after a step of resolve_person: it goes on waiting, or the
\* exception of resolve_person ends it, or resolve_person returned and the
\* endpoint awaits its reader, which runs up to the await of its query;
\* asyncio.gather makes a task of each reader for the event loop to start
AfterResolve ==
    IF pc' # "done" THEN UNCHANGED readerVars
    ELSE IF outcome' # "ok"
    THEN /\ reply' = [outcome |-> outcome', detail |-> detail', body |-> <<>>]
         /\ UNCHANGED <<endpoint, relations, ready, tasks, finished>>
    ELSE IF endpoint = "all_info"
    THEN /\ ready' = ReadersOf(endpoint)
         /\ UNCHANGED <<endpoint, relations, tasks, finished, reply>>
    ELSE /\ tasks' = [tasks EXCEPT ![ReadersOf(endpoint)[1]].st = "inflight"]
         /\ UNCHANGED <<endpoint, relations, ready, finished, reply>>

\* the event loop starts the next task of the gather: the reader runs up to
\* the await of its query
Issue ==
    /\ ready # <<>>
    /\ tasks' = [tasks EXCEPT ![Head(ready)].st = "inflight"]
    /\ ready' = Tail(ready)
    /\ UNCHANGED <<resolveVars, endpoint, relations, finished, reply>>

\* the query of reader rd is answered with r: the reader runs to its end, and
\* the endpoint goes on when its await is over; the gather ends with the
\* first exception of a reader, or when every reader has returned
ReaderReturn(rd, r) ==
    /\ tasks[rd].st = "inflight"
    /\ ready = <<>>
    /\ LET res == Reader(rd, r)
       IN /\ tasks' =
                 [tasks EXCEPT ![rd] =
                     [st |-> IF res.raised = NoExc THEN "returned" ELSE "raised",
                      resp |-> <<r>>, raised |-> res.raised, value |-> res.value]]
          /\ reply' =
                 IF reply.outcome # "pending" THEN reply
                 ELSE IF res.raised # NoExc
                 THEN [outcome |-> res.raised, detail |-> res.detail, body |-> <<>>]
                 ELSE IF \A i \in 1..Len(ReadersOf(endpoint)) :
                             tasks'[ReadersOf(endpoint)[i]].st = "returned"
                 THEN [outcome |-> "ok", detail |-> <<>>, body |-> <<Body(tasks')>>]
                 ELSE reply
    /\ finished' = Append(finished, rd)
    /\ UNCHANGED <<resolveVars, endpoint, relations, ready>>

\* ------------------------------------------------------- specifications

InitWith(Ns, KBs) ==
    /\ person \in Ns
    /\ context \in Contexts
    /\ kb \in KBs
    /\ pc = "search"
    /\ lang = 1
    /\ searchLog = <<>>
    /\ candidates = <<>>
    /\ qids = <<>>
    /\ sparqlLog = <<>>
    /\ enriched = <<>>
    /\ pool = <<>>
    /\ outcome = "pending"
    /\ returned = <<>>
    /\ run = 1
    /\ last = <<>>
    /\ queries = <<>>
    /\ detail = <<>>

\* the endpoint before resolve_person returns
InitEndpoint(Es, Rs) ==
    /\ endpoint \in Es
    /\ relations \in Rs
    /\ ready = <<>>
    /\ tasks = [rd \in Readers |-> IdleTask]
    /\ finished = <<>>
    /\ reply = Pending

\* resolve_person on its own
NoEndpoint == InitEndpoint({"none"}, {NoRelations})

\* one request against a backend that answers in any way it can
Init == InitWith({NielsBohr, PaddedBohr, EmptyName}, PlainKBs) /\ NoEndpoint

Next ==
    \/ pc = "search" /\ (\E r \in SearchResponses : SearchReturn(r))
           /\ UNCHANGED readerVars
    \/ Dedup /\ UNCHANGED readerVars
    \/ pc = "enrich" /\ (\E r \in SparqlResponses(kb) : EnrichReturn(r))
           /\ UNCHANGED readerVars

Spec == Init /\ [][Next]_vars

\* a number that tells the entities apart
EntityCode(e) ==
    (IF e.label = <<>> THEN 0 ELSE 1) + (IF e.human THEN 2 ELSE 0)
        + (IF e.dob THEN 4 ELSE 0) + (IF e.danish THEN 8 ELSE 0)
        + (IF e.sitelinks = <<Five>> THEN 0 ELSE IF e.sitelinks = <<Fifty>> THEN 16 ELSE 32)

\* every pair of entities, in one of its two assignments to the ids (the
\* rows of an answer come in any order, so the other assignment only
\* renames the ids)
ScoreKBs == {k \in [Ids -> Entities] : EntityCode(k["Q1"]) <= EntityCode(k["Q2"])}

\* the same request sent twice, with two different contexts, to a backend that
\* answers both times alike: the search finds both entities, the enrichment
\* query answers with rows of any knowledge base
InitScore == InitWith(Names, ScoreKBs) /\ NoEndpoint

ScoreSearchResponses ==
    {Response(200, [search |-> <<Hit("Q1", NielsBohr), HitNoLabel("Q2")>>])}

ScoreSparqlResponses(k) ==
    {Response(200, rows) : rows \in SeqUpTo(Bindings(k), MaxRows)}

NextScore ==
    \/ pc = "search" /\ (\E r \in ScoreSearchResponses : SearchReturn(r))
           /\ UNCHANGED readerVars
    \/ Dedup /\ UNCHANGED readerVars
    \/ pc = "enrich" /\ run = 1 /\ (\E r \in ScoreSparqlResponses(kb) : EnrichReturn(r))
           /\ UNCHANGED readerVars
    \/ pc = "enrich" /\ run = 2 /\ EnrichReturn(last[1].sparqlLog[1])
           /\ UNCHANGED readerVars
    \/ (\E c \in Contexts : Retry(c)) /\ UNCHANGED readerVars

SpecScore == InitScore /\ [][NextScore]_vars

\* one request whose first search answer is a long hit list; the enrichment
\* query answers with no row, or with the row of one of the ids it was asked
\* about
InitDedup == InitWith({NielsBohr}, {[q \in Ids |-> Bohr]}) /\ NoEndpoint

DedupSearchResponses == {Response(200, [search |-> h]) : h \in LongHitLists}

DedupSparqlResponses ==
    {Response(200, <<>>)}
        \cup {Response(200, <<Binding(qids[i], Bohr)>>) : i \in {1, Len(qids)}}

NextDedup ==
    \/ pc = "search" /\ (\E r \in DedupSearchResponses : SearchReturn(r))
           /\ UNCHANGED readerVars
    \/ Dedup /\ UNCHANGED readerVars
    \/ pc = "enrich" /\ (\E r \in DedupSparqlResponses : EnrichReturn(r))
           /\ UNCHANGED readerVars

SpecDedup == InitDedup /\ [][NextDedup]_vars

\* one request to any endpoint: resolve_person finds Niels Bohr, finds
\* nothing or fails, and the queries of the readers are answered in any way
\* and in any order
InitRead ==
    /\ InitWith({NielsBohr}, {[q \in Ids |-> Bohr]})
    /\ InitEndpoint(Endpoints, Relations)
    /\ endpoint # "supervisor" => relations = NoRelations
    /\ context = <<>>

ReadSearchResponses ==
    {Response(200, [search |-> <<Hit("Q1", NielsBohr)>>]),
     Response(200, [search |-> <<>>]), Response(500, <<>>)}

ReadSparqlResponses ==
    {Response(200, <<Binding("Q1", Bohr)>>), Response(200, <<>>), Response(500, <<>>)}

NextRead ==
    \/ pc = "search" /\ (\E r \in ReadSearchResponses : SearchReturn(r)) /\ AfterResolve
    \/ Dedup /\ AfterResolve
    \/ pc = "enrich" /\ (\E r \in ReadSparqlResponses : EnrichReturn(r)) /\ AfterResolve
    \/ Issue
    \/ \E rd \in Readers :
           tasks[rd].st = "inflight" /\ \E r \in ReaderResponses(rd) : ReaderReturn(rd, r)

SpecRead == InitRead /\ [][NextRead]_vars

\* two requests to an endpoint, each of whose outbound calls can succeed,
\* be answered with an error status, or time out
InitErrors ==
    /\ InitWith({NielsBohr}, {[q \in Ids |-> Bohr]})
    /\ InitEndpoint({"birthday", "all_info"}, {NoRelations})
    /\ context = <<>>

ErrorSearchResponses ==
    {Response(200, [search |-> <<Hit("Q1", NielsBohr)>>]), Response(200, [search |-> <<>>]),
     Response(500, <<>>), Response(503, <<>>), TimedOut}

ErrorSparqlResponses ==
    {Response(200, <<Binding("Q1", Bohr)>>), Response(200, <<>>),
     Response(500, <<>>), Response(503, <<>>), TimedOut}

ErrorReaderResponses(rd) ==
    {Response(200, <<>>), Response(500, <<>>), Response(503, <<>>), TimedOut}
        \cup {Response(200, <<row>>) :
                 row \in IF rd = "get_birthday" THEN BirthRows ELSE StudentRows}

\* the outbound call whose failure ended the request, "none" if none did
FailedCall ==
    IF searchLog # <<>> /\ wikidata_search(searchLog[Len(searchLog)].resp).raised # NoExc
    THEN "search"
    ELSE IF sparqlLog # <<>> /\ sparql_select(sparqlLog[1]).raised # NoExc
    THEN "enrichment"
    ELSE IF \E rd \in Readers : tasks[rd].st = "raised"
    THEN "read"
    ELSE "none"

\* the client has its answer and sends a second request, to endpoint ep
NextRequest(ep) ==
    /\ reply.outcome # "pending"
    /\ run = 1
    /\ run' = 2
    /\ last' = <<[reply |-> reply, failed |-> FailedCall]>>
    /\ pc' = "search"
    /\ lang' = 1
    /\ searchLog' = <<>>
    /\ candidates' = <<>>
    /\ qids' = <<>>
    /\ sparqlLog' = <<>>
    /\ queries' = <<>>
    /\ enriched' = <<>>
    /\ pool' = <<>>
    /\ outcome' = "pending"
    /\ detail' = <<>>
    /\ returned' = <<>>
    /\ endpoint' = ep
    /\ ready' = <<>>
    /\ tasks' = [rd \in Readers |-> IdleTask]
    /\ finished' = <<>>
    /\ reply' = Pending
    /\ UNCHANGED <<person, context, kb, relations>>

NextErrors ==
    \/ pc = "search" /\ (\E r \in ErrorSearchResponses : SearchReturn(r)) /\ AfterResolve
    \/ Dedup /\ AfterResolve
    \/ pc = "enrich" /\ (\E r \in ErrorSparqlResponses : EnrichReturn(r)) /\ AfterResolve
    \/ Issue
    \/ \E rd \in Readers :
           tasks[rd].st = "inflight" /\ \E r \in ErrorReaderResponses(rd) : ReaderReturn(rd, r)
    \/ \E ep \in {"birthday", "all_info"} : NextRequest(ep)

SpecErrors == InitErrors /\ [][NextErrors]_vars

\* the row of entity q when its date of birth is a value that is no date
\* (the "unknown value" of the knowledge base)
UndatedBinding(q, e) == [Binding(q, e) EXCEPT !.dob = UnknownDob]

\* the rows the enrichment query can return over knowledge base k
PoolBindings(k) ==
    Bindings(k) \cup {UndatedBinding(q, k[q]) : q \in {i \in Ids : k[i].dob}}

PoolSparqlResponses(k) ==
    {Response(200, rows) : rows \in SeqUpTo(PoolBindings(k), MaxRows)}

\* one request without context: the search finds both entities, and the
\* enrichment query answers with rows of any knowledge base of two
\* popularities, in any order and with repeats
PoolKBs == {k \in ScoreKBs : \A q \in Ids : k[q].sitelinks # <<Many>>}

\* a name of two tokens, a padded name of one token and the empty name
PoolNames == {NielsBohr, PaddedBohr, EmptyName}

InitPool == InitWith(PoolNames, PoolKBs) /\ NoEndpoint /\ context = <<>>

NextPool ==
    \/ pc = "search" /\ (\E r \in ScoreSearchResponses : SearchReturn(r))
           /\ UNCHANGED readerVars
    \/ Dedup /\ UNCHANGED readerVars
    \/ pc = "enrich" /\ (\E r \in PoolSparqlResponses(kb) : EnrichReturn(r))
           /\ UNCHANGED readerVars

SpecPool == InitPool /\ [][NextPool]_vars

\* ------------------------------------------------------------ properties

Done == pc = "done"

\* the search call i was answered with a non-success status
SearchFailed(i) == ~searchLog[i].resp.timeout /\ searchLog[i].resp.status_code # 200

\* the search call i was answered successfully with no hit
SearchEmpty(i) ==
    /\ ~searchLog[i].resp.timeout
    /\ searchLog[i].resp.status_code = 200
    /\ searchLog[i].resp.body.search = <<>>

\* the enrichment query was answered with a non-success status
EnrichFailed ==
    sparqlLog # <<>> /\ ~sparqlLog[1].timeout /\ sparqlLog[1].status_code # 200

SomeCallTimedOut ==
    \/ \E i \in 1..Len(searchLog) : searchLog[i].resp.timeout
    \/ \E i \in 1..Len(sparqlLog) : sparqlLog[i].timeout

\* resolve_person returned exactly one {qid, label}
ReturnedOne == Len(returned) = 1 /\ DOMAIN returned[1] = {"qid", "label"}

C2_NotFoundIffAllEmpty ==
    Done => (outcome = NotFound <=>
                /\ Len(searchLog) = Len(Langs)
                /\ \A i \in 1..Len(searchLog) : SearchEmpty(i))

C2_Witness ==
    Done /\ outcome = NotFound /\ Len(searchLog) = 3

\* _enrich_candidates returned the empty list: it was called with no id, or
\* the query succeeded and no row of the answer carries ?item
EnricherReturnedEmpty ==
    /\ Done
    /\ candidates # <<>>
    /\ \/ qids = <<>>
       \/ /\ sparqlLog # <<>>
          /\ ~sparqlLog[1].timeout
          /\ sparqlLog[1].status_code = 200
          /\ \A i \in 1..Len(sparqlLog[1].body) : "item" \notin DOMAIN sparqlLog[1].body[i]

\* the first raw candidate carries a non-empty label
FirstHasLabel == "label" \in DOMAIN candidates[1] /\ candidates[1].label # <<>>

\* C3: when the search found candidates and _enrich_candidates returned the
\* empty list, resolve_person returns the id of the first raw candidate and
\* its label, or the input name if that candidate has no label; no pool is
\* filtered or scored.
C3_FallbackReturnsFirst ==
    EnricherReturnedEmpty =>
        /\ outcome = "ok"
        /\ pool = <<>>
        /\ returned =
            <<[qid |-> candidates[1].id,
               label |-> IF FirstHasLabel THEN candidates[1].label ELSE person]>>

\* the fallback with two different raw candidates, the first without label,
\* after an answer that had rows but none with ?item
C3_Witness ==
    /\ EnricherReturnedEmpty
    /\ Len(candidates) = 2
    /\ candidates[1].id # candidates[2].id
    /\ "label" \notin DOMAIN candidates[1]
    /\ sparqlLog # <<>>
    /\ sparqlLog[1].body # <<>>

\* C4: when the enrichment query is answered with a non-success status,
\* resolve_person still succeeds and returns the first raw candidate.
C4_EnrichFailureFallsBack ==
    (Done /\ EnrichFailed) =>
        /\ outcome = "ok"
        /\ returned =
            <<[qid |-> candidates[1].id,
               label |-> IF FirstHasLabel THEN candidates[1].label ELSE person]>>

\* resolve_person ended on the scored path
ScoredDone == Done /\ outcome = "ok" /\ enriched # <<>>

\* the positions of enriched that the filtering cascade keeps
HumanIdx == {i \in 1..Len(enriched) : enriched[i].is_human = 1}
PreferredIdx == IF HumanIdx # {} THEN HumanIdx ELSE 1..Len(enriched)
DatedIdx == {i \in PreferredIdx : enriched[i].has_dob = 1}
FinalIdx == IF DatedIdx # {} THEN DatedIdx ELSE PreferredIdx

\* how often row c occurs in sequence sq at the positions idx
Occurrences(c, sq, idx) == Cardinality({i \in idx : sq[i] = c})

\* C5: on the scored path the pool the winner is drawn from consists of the
\* human candidates if there are any (else of all enriched candidates),
\* narrowed to those with a birthdate if there are any; it is never empty,
\* the winner is human whenever an enriched candidate is, and has a
\* birthdate whenever a candidate of the human-preferred pool has one.
C5_FilteringCascade ==
    ScoredDone =>
        /\ FinalIdx # {}
        /\ Len(pool) = Cardinality(FinalIdx)
        /\ \A i \in 1..Len(pool) :
              Occurrences(pool[i], pool, 1..Len(pool)) = Occurrences(pool[i], enriched, FinalIdx)
        /\ HumanIdx # {} => pool[1].is_human = 1
        /\ DatedIdx # {} => pool[1].has_dob = 1
        /\ returned[1].qid = pool[1].qid

\* a human without birthdate and a human with one, where the one without
\* would score higher on popularity alone
C5_Witness ==
    /\ ScoredDone
    /\ Len(enriched) = 2
    /\ Len(pool) = 1
    /\ \E i \in 1..2 :
          /\ enriched[i].is_human = 1
          /\ enriched[i].has_dob = 0
          /\ enriched[i].sitelinks = 5000
          /\ enriched[3 - i] = pool[1]
          /\ pool[1].sitelinks = 5

\* the name is short: one whitespace-delimited token, or it holds a period
ShortName == Len(split(person)) = 1 \/ \E i \in 1..Len(person) : person[i] = "."

\* the score the specification documents, in half points
DocumentedScore(c) ==
    2000 * c.is_human
        + 600 * c.has_dob
        + (IF ShortName THEN 160 * c.is_danish ELSE 0)
        + (IF strip(person) # <<>> /\ contains(lower(strip(person)), lower(c.label))
           THEN 20 ELSE 0)
        + c.sitelinks

\* rows a and b differ in the Danish flag and the popularity (and the id) only
RasmussenPair(x, y) ==
    /\ x.is_danish = 1 /\ x.sitelinks = 5
    /\ y.is_danish = 0 /\ y.sitelinks = 50
    /\ x.is_human = y.is_human /\ x.has_dob = y.has_dob /\ x.label = y.label

\* C6: the winner of the scored path has the maximum documented score of the
\* final pool; for the name "Rasmussen" and two otherwise equal candidates
\* with locale_affinity=1, popularity=5 and locale_affinity=0,
\* popularity=50, the one with locale affinity wins.
C6_WinnerHasMaxScore ==
    ScoredDone =>
        /\ \A i \in FinalIdx : DocumentedScore(pool[1]) >= DocumentedScore(enriched[i])
        /\ returned[1].qid = pool[1].qid
        /\ \A i \in 1..Len(enriched) :
              (person = Rasmussen /\ Len(enriched) = 2 /\ RasmussenPair(enriched[i], enriched[3 - i]))
                  => pool[1] = enriched[i]

C6_Witness ==
    /\ ScoredDone
    /\ person = Rasmussen
    /\ Len(enriched) = 2
    /\ RasmussenPair(enriched[2], enriched[1])
    /\ returned[1].qid = enriched[2].qid

\* the first position of the final pool, in the order of enriched, whose
\* documented score is maximal
FirstMaximal ==
    CHOOSE i \in FinalIdx :
        /\ \A j \in FinalIdx : DocumentedScore(enriched[i]) >= DocumentedScore(enriched[j])
        /\ \A j \in FinalIdx :
              DocumentedScore(enriched[j]) = DocumentedScore(enriched[i]) => i <= j

\* C7: among the candidates of the final pool that share the maximum score,
\* the one that comes first in the order of the pool wins.
C7_TieGoesToFirst ==
    ScoredDone =>
        /\ pool[1] = enriched[FirstMaximal]
        /\ returned[1].qid = enriched[FirstMaximal].qid

\* two different entities tie for the maximum
C7_Witness ==
    /\ ScoredDone
    /\ Len(pool) = 2
    /\ pool[1].qid # pool[2].qid
    /\ DocumentedScore(pool[1]) = DocumentedScore(pool[2])

\* enriched with the Danish flag of row i changed
FlipDanish(en, i) == [en EXCEPT ![i].is_danish = 1 - en[i].is_danish]

\* the {qid, label} the scored path returns for enriched candidates en
ScoredAnswer(en) ==
    [qid |-> ScoredPool(person, en)[1].qid, label |-> LabelOr(ScoredPool(person, en)[1], person)]

\* C8: the Danish bonus is part of a candidate's score exactly for a short
\* name; for a name of two or more tokens without a period, changing the
\* Danish flag of any candidate leaves the answer as it is.
C8_LocaleBonusOnlyForShortNames ==
    ScoredDone =>
        /\ \A i \in 1..Len(pool) :
              Scores[i] - (IF ShortName THEN 160 * pool[i].is_danish ELSE 0)
                  = DocumentedScore([pool[i] EXCEPT !.is_danish = 0])
        /\ (Len(split(person)) >= 2 /\ ~ShortName) =>
              \A i \in 1..Len(enriched) : ScoredAnswer(FlipDanish(enriched, i)) = returned[1]

\* a name of two tokens, and a Danish candidate that the bonus would make win
C8_Witness ==
    /\ ScoredDone
    /\ person = NielsBohr
    /\ Len(pool) = 2
    /\ pool[1].is_danish = 0
    /\ pool[2].is_danish = 1
    /\ Scores[1] - Scores[2] < 160

\* C9: the same request, answered alike by the backend, ends alike under
\* any two contexts: same enriched candidates, same pool, same scores, same
\* outcome and same returned {qid, label}.
C9_ContextHasNoInfluence ==
    (Done /\ run = 2) =>
        /\ enriched = last[1].enriched
        /\ pool = last[1].pool
        /\ Scores = last[1].scores
        /\ outcome = last[1].outcome
        /\ returned = last[1].returned

\* the second request carries a context naming a candidate's label, the
\* first carried none
C9_Witness ==
    /\ ScoredDone
    /\ run = 2
    /\ last[1].context = <<>>
    /\ context = <<NielsBohr>>
    /\ Len(pool) = 2
    /\ pool[2].label = NielsBohr
    /\ pool[1].label # NielsBohr

UsableId(i) ==
    IF "id" \in DOMAIN candidates[i] /\ candidates[i].id # ""
    THEN {candidates[i].id} ELSE {}

\* the usable ids among the first k candidates
UsableIds(k) == UNION {UsableId(i) : i \in 1..k}

\* where id q occurs first in the candidates
FirstPos(q) ==
    CHOOSE i \in 1..Len(candidates) :
        /\ UsableId(i) = {q}
        /\ \A j \in 1..(i - 1) : UsableId(j) # {q}

\* C11: the id list resolve hands to the Enricher has no duplicates, lists
\* the ids in the order of their first occurrence among the candidates, and
\* holds exactly the first 12 different non-empty ids (all of them when
\* there are fewer), whether or not the candidates repeat ids.
C11_IdListUniqueOrderedCapped ==
    pc \in {"enrich", "done"} /\ candidates # <<>> =>
        /\ Len(qids) <= 12
        /\ \A i, j \in 1..Len(qids) : i # j => qids[i] # qids[j]
        /\ {qids[i] : i \in 1..Len(qids)} =
               {q \in UsableIds(Len(candidates)) :
                   Cardinality(UsableIds(FirstPos(q) - 1)) < 12}
        /\ \A i, j \in 1..Len(qids) : i < j => FirstPos(qids[i]) < FirstPos(qids[j])
        /\ sparqlLog # <<>> => qids # <<>>

\* thirteen different ids and a repeated one were found, twelve were kept
C11_Witness ==
    /\ pc = "enrich"
    /\ Len(qids) = 12
    /\ Cardinality(UsableIds(Len(candidates))) = 13
    /\ \E i, j \in 1..12 : i < j /\ UsableId(i) = UsableId(j) /\ UsableId(i) # {}

\* ---------------------------------------------------------------- C12

\* the last search call was answered successfully with at least one hit
LastSearchFound ==
    /\ searchLog # <<>>
    /\ ~searchLog[Len(searchLog)].resp.timeout
    /\ searchLog[Len(searchLog)].resp.status_code = 200
    /\ searchLog[Len(searchLog)].resp.body.search # <<>>

\* C12: the search calls are made in the order en, da, auto, one call per
\* hint and each asking for 20 hits; a hint is only tried after every
\* earlier one returned empty; the first non-empty answer ends the search and
\* is exactly the candidate list, and the search comes back empty only after
\* all three hints returned empty.
C12_HintsInOrderUntilFirstHit ==
    /\ Len(searchLog) <= 3
    /\ \A i \in 1..Len(searchLog) :
           /\ searchLog[i].lang = <<"en", "da", "auto">>[i]
           /\ searchLog[i].limit = 20
           /\ i < Len(searchLog) => SearchEmpty(i)
    /\ LastSearchFound =>
           /\ pc # "search"
           /\ candidates = searchLog[Len(searchLog)].resp.body.search
    /\ candidates # <<>> => LastSearchFound
    /\ pc = "search" => Len(searchLog) < 3 /\ lang = Len(searchLog) + 1
    /\ outcome = NotFound =>
           Len(searchLog) = 3 /\ \A i \in 1..3 : SearchEmpty(i)

\* en returned empty, da returned two hits, auto was never asked
C12_Witness ==
    /\ Done
    /\ outcome = "ok"
    /\ Len(searchLog) = 2
    /\ SearchEmpty(1)
    /\ Len(candidates) = 2
    /\ searchLog[2].lang = "da"

\* ---------------------------------------------------------------- C13

\* C13: a non-success answer of the search capability, on whichever hint,
\* ends resolve at once with the upstream failure HTTP 502, which is not the
\* NotFound outcome: no later hint is asked, no candidate is taken from the
\* failed call and nothing is resolved.
C13_SearchFailureIsUpstreamFailure ==
    \A i \in 1..Len(searchLog) :
        SearchFailed(i) =>
            /\ i = Len(searchLog)
            /\ Done
            /\ outcome = "HTTP 502"
            /\ outcome # NotFound
            /\ candidates = <<>>
            /\ sparqlLog = <<>>
            /\ returned = <<>>

\* en returned empty and the da call failed
C13_Witness ==
    /\ Len(searchLog) = 2
    /\ SearchEmpty(1)
    /\ SearchFailed(2)
    /\ outcome = BadGateway

\* ---------------------------------------------------------------- C14

\* reader rd returned a value
ReaderReturned(rd) == tasks[rd].st = "returned"

\* the rows reader rd was answered with
RowsOf(rd) == tasks[rd].resp[1].body

\* text d has the shape YYYY-MM-DD
IsYmd(d) ==
    /\ Len(d) = 10
    /\ d[5] = "-" /\ d[8] = "-"
    /\ \A i \in {1, 2, 3, 4, 6, 7, 9, 10} : d[i] \in {Digits[k] : k \in 1..Len(Digits)}

\* the date part of a birthdate value, as a set: the text before the first
\* "T", else the first ten characters of a text with "-" as its 5th and 8th
\* character; nothing for any other value and nothing when that text is empty
DatePart(v) ==
    IF \E i \in 1..Len(v) : v[i] = "T"
    THEN {SubSeq(v, 1, i - 1) :
             i \in {k \in 1..Len(v) : v[k] = "T" /\ \A j \in 1..(k - 1) : v[j] # "T"}}
             \ {<<>>}
    ELSE IF Len(v) >= 10 /\ v[5] = "-" /\ v[8] = "-" THEN {SubSeq(v, 1, 10)}
    ELSE {}

\* the date parts of all the rows get_birthday was answered with
DateParts ==
    UNION {DatePart(RowsOf("get_birthday")[i].dob) :
              i \in {k \in 1..Len(RowsOf("get_birthday")) :
                         "dob" \in DOMAIN RowsOf("get_birthday")[k]}}

\* text d is a date: YYYY-MM-DD, with a minus sign in front for a year
\* before the common era
IsDate(d) == IsYmd(d) \/ (d # <<>> /\ d[1] = "-" /\ IsYmd(Tail(d)))

RowId(rows, key, i) ==
    IF key \in DOMAIN rows[i] /\ rows[i][key] # <<>>
    THEN {rows[i][key][Len(rows[i][key])]} ELSE {}

\* the first row that binds the entity with id q to key
FirstRow(rows, key, q) ==
    CHOOSE i \in 1..Len(rows) :
        RowId(rows, key, i) = {q} /\ \A j \in 1..(i - 1) : RowId(rows, key, j) # {q}

\* C15: get_students returns every student id of the rows exactly once,
\* also when several rows carry the same id, in the order in which the ids
\* first occur in the rows, with the label of that first row.
C15_StudentsOnceInFirstOccurrenceOrder ==
    ReaderReturned("get_students") =>
        LET rows == RowsOf("get_students")
            out == tasks["get_students"].value
        IN /\ \A i, j \in 1..Len(out) : i # j => out[i].qid # out[j].qid
           /\ {out[i].qid : i \in 1..Len(out)} =
                  UNION {RowId(rows, "student", i) : i \in 1..Len(rows)}
           /\ \A i, j \in 1..Len(out) :
                  i < j => FirstRow(rows, "student", out[i].qid)
                              < FirstRow(rows, "student", out[j].qid)
           /\ \A i \in 1..Len(out) :
                  out[i].label =
                      GetOr(rows[FirstRow(rows, "student", out[i].qid)], "studentLabel", <<>>)

\* two rows carried the same student, and the student was returned once
C15_Witness ==
    /\ ReaderReturned("get_students")
    /\ Len(RowsOf("get_students")) = 2
    /\ RowId(RowsOf("get_students"), "student", 1) = {RelQ2}
    /\ RowId(RowsOf("get_students"), "student", 2) = {RelQ2}
    /\ RowsOf("get_students")[1] # RowsOf("get_students")[2]
    /\ Len(tasks["get_students"].value) = 1

\* ---------------------------------------------------------------- C16

\* record x does not come after record y in the order by (label, id)
NotAfter(x, y) ==
    \/ StrLess(x.label, y.label)
    \/ x.label = y.label /\ (x.qid = y.qid \/ StrLess(x.qid, y.qid))

\* the record of row i, as a set: empty for a row that binds no entity
RowRecord(rows, key, labelKey, i) ==
    {[label |-> GetOr(rows[i], labelKey, <<>>), qid |-> q] : q \in RowId(rows, key, i)}

\* reader rd returned the records of the rows that bind an entity, each as
\* often as the rows carry it, sorted ascending by (label, id)
SortedRecordsOfRows(rd, key, labelKey) ==
    ReaderReturned(rd) =>
        LET rows == RowsOf(rd)
            out == tasks[rd].value
        IN /\ \A i \in 1..(Len(out) - 1) : NotAfter(out[i], out[i + 1])
           /\ \A rec \in {out[i] : i \in 1..Len(out)}
                        \cup UNION {RowRecord(rows, key, labelKey, i) : i \in 1..Len(rows)} :
                  Cardinality({i \in 1..Len(out) : out[i] = rec}) =
                      Cardinality({i \in 1..Len(rows) :
                                      RowRecord(rows, key, labelKey, i) = {rec}})

\* C16: whatever the order of the rows, the lists get_political_party and
\* get_supervisors return are sorted ascending by (label, id) and hold
\* exactly the records of the rows that carry an entity.
C16_PartiesAndSupervisorsSorted ==
    /\ SortedRecordsOfRows("get_political_party", "party", "partyLabel")
    /\ SortedRecordsOfRows("get_supervisors", "supervisor", "supervisorLabel")

\* the rows came with the greater label first, whose entity has the smaller
\* id, and were returned in the order of the labels
C16_Witness ==
    /\ ReaderReturned("get_political_party")
    /\ RowsOf("get_political_party") =
           <<RelationRow("party", "partyLabel", RelQ10, <<LabelA>>),
             RelationRow("party", "partyLabel", RelQ2, <<LabelB>>)>>
    /\ tasks["get_political_party"].value =
           <<[label |-> LabelB, qid |-> RelQ2], [label |-> LabelA, qid |-> RelQ10]>>

\* ---------------------------------------------------------------- C17

Answered(rd) == tasks[rd].resp # <<>>

\* the query of reader rd was answered with a non-success status
QueryFailed(rd) ==
    Answered(rd) /\ ~tasks[rd].resp[1].timeout /\ tasks[rd].resp[1].status_code # 200

\* the query of reader rd was answered successfully without any row
QueryEmpty(rd) ==
    /\ Answered(rd)
    /\ ~tasks[rd].resp[1].timeout
    /\ tasks[rd].resp[1].status_code = 200
    /\ tasks[rd].resp[1].body = <<>>

\* the endpoint calls only one reader
SingleReader == Len(ReadersOf(endpoint)) = 1

\* C18: for each of the four readers, a query answered with an error makes
\* the reader fail with HTTP 502, which the endpoint reports in place of
\* any result, and a query answered without rows makes the reader return
\* the empty list (null for the birth date), which the endpoint reports as
\* a success.
C18_FailureIsNotEmptiness ==
    \A rd \in Readers :
        /\ QueryFailed(rd) =>
               /\ tasks[rd].st = "raised"
               /\ tasks[rd].raised = "HTTP 502"
               /\ reply.outcome \notin {"ok", "pending"}
               /\ reply.body = <<>>
               /\ SingleReader => reply.outcome = "HTTP 502"
        /\ QueryEmpty(rd) =>
               /\ tasks[rd].st = "returned"
               /\ tasks[rd].raised = NoExc
               /\ tasks[rd].value = <<>>
               /\ SingleReader =>
                      /\ reply.outcome = "ok"
                      /\ reply.body[1][Field(rd)] = <<>>

\* in one request the birth date query had no row and the students query
\* failed
C18_Witness ==
    /\ QueryEmpty("get_birthday")
    /\ tasks["get_birthday"].st = "returned"
    /\ QueryFailed("get_students")
    /\ tasks["get_students"].raised = BadGateway

\* ---------------------------------------------------------------- C19

\* the call of reader rd has been started
Started(rd) == tasks[rd].st # "idle"

\* the query of reader rd can be answered now
CanReturn(rd) == ENABLED (\E r \in ReaderResponses(rd) : ReaderReturn(rd, r))

\* C19: in a request to /v1/all no reader is started or queued before
\* resolve_person has returned successfully, and none when it failed; no
\* reader finishes before both readers are in flight, and while both are in
\* flight either of them can finish first.
C19_ReadersAfterResolveAndConcurrent ==
    endpoint = "all_info" =>
        /\ (ready # <<>> \/ \E rd \in Readers : Started(rd)) =>
               pc = "done" /\ outcome = "ok" /\ Len(returned) = 1
        /\ finished # <<>> => Started("get_birthday") /\ Started("get_students")
        /\ \A rd \in {"get_birthday", "get_students"} :
               tasks[rd].st = "inflight" /\ ready = <<>> => CanReturn(rd)
        /\ \A rd \in Readers : Started(rd) => rd \in {"get_birthday", "get_students"}

\* the students query, issued second, was answered while the birth date
\* query was still in flight
C19_Witness ==
    /\ endpoint = "all_info"
    /\ finished = <<"get_students">>
    /\ tasks["get_birthday"].st = "inflight"

\* ---------------------------------------------------------------- C20

\* C20: in a request to /v1/all in which one reader fails or times out and
\* the other one returns, the response is a success that carries the value
\* of the reader that returned.
C20_PartialResults ==
    \A rd, other \in {"get_birthday", "get_students"} :
        endpoint = "all_info" /\ tasks[rd].st = "raised" /\ tasks[other].st = "returned" =>
            /\ reply.outcome = "ok"
            /\ reply.body # <<>>
            /\ reply.body[1][Field(other)] = tasks[other].value

\* ---------------------------------------------------------------- C21

\* no reader was queued or started
NoReaderCalled == ready = <<>> /\ \A rd \in Readers : tasks[rd].st = "idle"

\* C21: a search call, enrichment query or property query on which the HTTP
\* client times out ends the request at that call, and the caller gets the
\* time-out error, which is neither the 502 of a non-success answer nor the
\* 404 of an unknown name; those two are never reported for a time-out and
\* the time-out error is reported for nothing else.
C21_TimeoutIsItsOwnFailure ==
    /\ \A i \in 1..Len(searchLog) :
           searchLog[i].resp.timeout =>
               /\ i = Len(searchLog)
               /\ Done /\ outcome = "httpx.TimeoutException"
               /\ reply.outcome = "httpx.TimeoutException"
               /\ sparqlLog = <<>> /\ NoReaderCalled
    /\ (sparqlLog # <<>> /\ sparqlLog[1].timeout) =>
           /\ Done /\ outcome = "httpx.TimeoutException"
           /\ reply.outcome = "httpx.TimeoutException"
           /\ returned = <<>> /\ NoReaderCalled
    /\ \A rd \in Readers :
           (tasks[rd].resp # <<>> /\ tasks[rd].resp[1].timeout) =>
               /\ tasks[rd].st = "raised"
               /\ tasks[rd].raised = "httpx.TimeoutException"
               /\ reply.outcome \in {"httpx.TimeoutException", "HTTP 502"}
               /\ SingleReader => reply.outcome = "httpx.TimeoutException"
    /\ reply.outcome = "httpx.TimeoutException" =>
           \/ SomeCallTimedOut
           \/ \E rd \in Readers : tasks[rd].resp # <<>> /\ tasks[rd].resp[1].timeout
    /\ reply.outcome \in {"HTTP 502", "HTTP 404"} =>
           /\ ~SomeCallTimedOut
           /\ SingleReader =>
                  \A rd \in Readers : tasks[rd].resp # <<>> => ~tasks[rd].resp[1].timeout

\* the birth date query timed out after a successful resolve
C21_Witness ==
    /\ endpoint = "birthday"
    /\ outcome = "ok"
    /\ tasks["get_birthday"].resp = <<TimedOut>>
    /\ reply.outcome = Timeout

\* ---------------------------------------------------------------- C23

\* C23: when two requests fail in different outbound calls (the search, the
\* enrichment query, a property query), the errors their callers get differ.
C23_ErrorNamesFailedCall ==
    (run = 2 /\ FailedCall # "none" /\ last[1].failed # "none"
        /\ FailedCall # last[1].failed /\ reply.outcome # "pending") =>
        <<reply.outcome, reply.detail>> # <<last[1].reply.outcome, last[1].reply.detail>>

\* ---------------------------------------------------------------- C26

\* C26: one resolve issues at most one enrichment query; for a non-empty id
\* list it is a single query whose VALUES clause lists every id of the list,
\* for an empty id list no query is issued, and no answer arrives for a query
\* that was not issued.
C26_OneQueryForAllIds ==
    /\ Len(queries) <= 1
    /\ Len(sparqlLog) <= Len(queries)
    /\ pc \in {"enrich", "done"} /\ candidates # <<>> =>
           queries = IF qids = <<>> THEN <<>> ELSE <<[values |-> qids]>>

\* an id list of twelve ids was enriched and answered
C26_Witness ==
    /\ Done
    /\ Len(qids) = 12
    /\ Len(queries) = 1
    /\ Len(sparqlLog) = 1

\* a resolve over an empty id list ended without a query
C26_EmptyIdList == Done /\ candidates # <<>> /\ qids = <<>> /\ queries = <<>>

\* ---------------------------------------------------------------- C29

\* C29: every successful result of resolve_person carries a non-empty id
\* that is one of the first 12 different non-empty ids of the search result,
\* on the scored path and on the fallback path.
C29_ReturnedIdIsUsable ==
    Done /\ outcome = "ok" =>
        /\ returned[1].qid # ""
        /\ \E i \in 1..Len(qids) : qids[i] = returned[1].qid

\* ---------------------------------------------------------------- C24

\* C24: on the scored path the returned id is the id of the winning
\* candidate, and the returned label is the winner's label unless that label
\* is empty, in which case it is the input name exactly as it was sent.
C24_LabelOfWinnerOrRawName ==
    ScoredDone =>
        /\ returned[1].qid = enriched[FirstMaximal].qid
        /\ returned[1].label =
               IF enriched[FirstMaximal].label = <<>> THEN person
               ELSE enriched[FirstMaximal].label

\* a winner without label, for a name that stripping would change
C24_Witness ==
    /\ ScoredDone
    /\ person = PaddedBohr
    /\ pool[1].label = <<>>
    /\ returned[1].label = PaddedBohr
    /\ \E i \in 1..Len(enriched) : enriched[i].label # <<>>

\* ---------------------------------------------------------------- C25

\* C25: every enriched candidate has has_dob = 1 exactly when its dob is
\* not None, whatever rows the enrichment query returned.
C25_HasBirthdateIffBirthdate ==
    \A i \in 1..Len(enriched) : enriched[i].has_dob = 1 <=> enriched[i].dob # <<>>

\* ---------------------------------------------------------------- C27

\* the score of candidate c without the lexical bonus, in half points
ScoreWithoutLexical(c) ==
    2000 * c.is_human + 600 * c.has_dob
        + (IF ShortName THEN 160 * c.is_danish ELSE 0) + c.sitelinks

\* the lexical bonus score() gave to the candidate at position i of the pool
LexicalBonus(i) == Scores[i] - ScoreWithoutLexical(pool[i])

\* C27 as stated: the +10 bonus is part of a candidate's score exactly when
\* the lowercased input name, as it was sent, is a substring of the
\* lowercased label, for every name.
C27_BonusIffNameInLabel ==
    ScoredDone =>
        \A i \in 1..Len(pool) :
            /\ LexicalBonus(i) \in {0, 20}
            /\ LexicalBonus(i) = 20 <=> contains(lower(person), lower(pool[i].label))

\* C27, amended: the +10 bonus is part of a candidate's score exactly when
\* the input name, stripped of leading and trailing whitespace and
\* lowercased, is not empty and is a substring of the lowercased label.
C27_BonusIffStrippedNameInLabel ==
    ScoredDone =>
        \A i \in 1..Len(pool) :
            /\ LexicalBonus(i) \in {0, 20}
            /\ LexicalBonus(i) = 20 <=>
                   /\ strip(person) # <<>>
                   /\ contains(lower(strip(person)), lower(pool[i].label))

\* a padded name earns the bonus for the label that holds its stripped form
C27_Witness ==
    /\ ScoredDone
    /\ person = PaddedBohr
    /\ pool[1].label = NielsBohr
    /\ LexicalBonus(1) = 20
    /\ ~contains(lower(person), lower(pool[1].label))

\* the empty name earns no bonus although it is a substring of every label
C27_EmptyName ==
    /\ ScoredDone
    /\ person = EmptyName
    /\ LexicalBonus(1) = 0

\* ---------------------------------------------------------------- C28

\* the documented score of c without the +1000 and +300 terms
RemainingScore(c) == DocumentedScore([c EXCEPT !.is_human = 0, !.has_dob = 0])

\* C28: all candidates of the final pool carry the same is_human and the
\* same has_dob, so any two of them differ in score by what they differ in
\* the locale bonus, the lexical bonus and half the popularity, and the
\* winner has the maximum of these three terms.
C28_WinnerDecidedByRemainingTerms ==
    ScoredDone =>
        /\ \A i, j \in 1..Len(pool) :
              /\ pool[i].is_human = pool[j].is_human
              /\ pool[i].has_dob = pool[j].has_dob
              /\ Scores[i] - Scores[j] = RemainingScore(pool[i]) - RemainingScore(pool[j])
        /\ \A i \in 1..Len(pool) : RemainingScore(pool[1]) >= RemainingScore(pool[i])
        /\ returned[1].qid = pool[1].qid

\* two humans with a birthdate, the second row winning on the remaining terms
C28_Witness ==
    /\ ScoredDone
    /\ Len(pool) = 2
    /\ pool[1].is_human = 1 /\ pool[1].has_dob = 1
    /\ pool[1].qid # pool[2].qid
    /\ pool[1] = enriched[2]
    /\ RemainingScore(pool[1]) > RemainingScore(pool[2])

\* ---------------------------------------------------------------- C30

\* the rows the enrichment query returned
EnrichmentRows == sparqlLog[1].body

\* the rows with row i repeated at position p
Repeated(rows, i, p) == InsertHit(rows, rows[i], p)

\* the {qid, label} of the scored path when row i of the enrichment result
\* is repeated at position p
AnswerAfterRepeat(i, p) ==
    LET best == ScoredPool(person, EnrichRows(Repeated(EnrichmentRows, i, p)))[1]
    IN [qid |-> best.qid, label |-> LabelOr(best, person)]

\* C30 as stated: every row of the enrichment result becomes a candidate,
\* rows of one id included, and repeating a row at any position of the
\* result leaves the returned id and label as they are.
C30_RepeatAnywhereKeepsAnswer ==
    ScoredDone =>
        /\ Len(enriched) = Len(EnrichmentRows)
        /\ \A i \in 1..Len(EnrichmentRows) : \A p \in 1..(Len(EnrichmentRows) + 1) :
              AnswerAfterRepeat(i, p) = returned[1]

\* C30, amended: every row of the enrichment result becomes a candidate,
\* rows of one id included, and repeating a row at any position after that
\* row leaves the returned id and label as they are.
C30_RepeatAfterKeepsAnswer ==
    ScoredDone =>
        /\ Len(enriched) = Len(EnrichmentRows)
        /\ \A i \in 1..Len(EnrichmentRows) : \A p \in (i + 1)..(Len(EnrichmentRows) + 1) :
              AnswerAfterRepeat(i, p) = returned[1]

\* two entities tie for the maximum, so that the order of the rows decides,
\* and the row of the loser can be repeated after itself
C30_Witness ==
    /\ ScoredDone
    /\ Len(EnrichmentRows) = 2
    /\ Len(pool) = 2
    /\ pool[1].qid # pool[2].qid
    /\ Scores[1] = Scores[2]
    /\ AnswerAfterRepeat(2, 3) = returned[1]
    /\ AnswerAfterRepeat(2, 1) # returned[1]

\* one entity with two rows, both candidates of the pool
C30_TwoRowsOfOneId ==
    /\ ScoredDone
    /\ Len(pool) = 2
    /\ pool[1].qid = pool[2].qid

\* ---------------------------------------------------------------- C22

\* the labels the services supply: the English labels of the entities (the
\* label service of the enrichment query is asked for "en") and the labels
\* of search hits, all taken for English whatever the hint of the search
SuppliedLabels ==
    ({kb[q].label[1] : q \in {i \in Ids : kb[i].label # <<>>}} \cup SearchLabels)
        \ {EmptyName}

\* C22: the label of every entity resolve_person returns is a label in
\* English, on the scored path and on the fallback path and whichever
\* language hint found the candidates.
C22_LabelIsEnglish == Done /\ outcome = "ok" => returned[1].label \in SuppliedLabels

====
